---- MODULE Spec2Model ----
(***************************************************************************)
(* RedoxFS: the FUSE adapter (fuse/main.rs) and the Redox resource layer   *)
(* (src/mount/redox/resource.rs) over the filesystem engine.               *)
(*                                                                         *)
(* The engine (redoxfs::FileSystem: allocate, deallocate, node_set_len,    *)
(* find_node, create_node, remove_node, read_node, write_node) is not part *)
(* of the two source files; it is modelled from sections 3, 4.2-4.4 and 6  *)
(* of the specification.  The adapters are modelled from their code.       *)
(*                                                                         *)
(* Specifications:                                                         *)
(*   Spec     the FUSE host: one RedoxFS value served request by request   *)
(*   SpecRes  the Redox host: FileResource handles over one FileSystem     *)
(***************************************************************************)
EXTENDS Integers, Sequences, FiniteSets, TLC

VARIABLES
    fs,      \* RedoxFS.fs / the FileSystem borrowed by every resource call
    reply,   \* the reply handed to the kernel by the last FUSE request
    files,   \* the open FileResource handles
    opened,  \* history: the flags each open handle was created with
    proc,    \* the host process: where main is, what it printed, its exit status
    ret,     \* the Result returned by the last resource call
    hist     \* history: what the requests before the last one established

vars == <<fs, reply, files, opened, proc, ret, hist>>

---------------------------------------------------------------------------
(* Bounds of the model *)

\* Size of the image, in blocks.
NumBlocks == 9

\* Width of the machine words (u64, usize, i64) in the model: the 64-bit
\* arithmetic of the code is done on words of WordBits bits.
WordBits == 20

Names == {"a", "b"}

\* Names given to mkdir.
DirNames == {"a"}

---------------------------------------------------------------------------
(* Program constants *)

BLOCK_SIZE == 512

\* Size of one child pointer in a directory body.
PTR_SIZE == 8

\* syscall::flag
O_RDONLY == 65536
O_WRONLY == 131072
O_RDWR == 196608
O_NONBLOCK == 262144
O_APPEND == 524288
O_ACCMODE == 196608
F_GETFL == 3
F_SETFL == 4
SEEK_SET == 0
SEEK_CUR == 1
SEEK_END == 2

MODE_DIR == "MODE_DIR"
MODE_FILE == "MODE_FILE"

OK == "OK"

---------------------------------------------------------------------------
(* Helpers *)

Min(S) == CHOOSE x \in S : \A y \in S : x <= y

MinOf(a, b) == IF a <= b THEN a ELSE b

MaxOf(a, b) == IF a >= b THEN a ELSE b

RemoveAt(s, i) == SubSeq(s, 1, i - 1) \o SubSeq(s, i + 1, Len(s))

BlockRange(start, n) == start .. (start + n - 1)

\* Blocks occupied by an extent of `length` bytes.
BlocksFor(length) == (length + BLOCK_SIZE - 1) \div BLOCK_SIZE

Result(err, f, val) == [err |-> err, fs |-> f, val |-> val]

RECURSIVE Pow2(_)
Pow2(n) == IF n = 0 THEN 1 ELSE 2 * Pow2(n - 1)

\* Number of values of an unsigned word; the signed range is
\* -Word/2 .. Word/2 - 1.
Word == Pow2(WordBits)

MaxSigned == Word \div 2 - 1

\* `x as i64` for an unsigned word x.
AsSigned(x) == IF x > MaxSigned THEN x - Word ELSE x

\* `x as u64` for a signed word x.
AsUnsigned(x) == IF x < 0 THEN x + Word ELSE x

RECURSIVE BitAnd(_, _)
BitAnd(a, b) ==
    IF a = 0 \/ b = 0 THEN 0
    ELSE (a % 2) * (b % 2) + 2 * BitAnd(a \div 2, b \div 2)

RECURSIVE BitOr(_, _)
BitOr(a, b) ==
    IF a = 0 THEN b ELSE IF b = 0 THEN a
    ELSE MaxOf(a % 2, b % 2) + 2 * BitOr(a \div 2, b \div 2)

\* `!x` on a word.
BitNot(x) == Word - 1 - x

---------------------------------------------------------------------------
(* Disk: block -> bytes.  A block is kept as the function from the         *)
(* positions holding a non-zero byte to that byte; every other position    *)
(* of the 512 reads as zero.                                               *)

EmptyBlock == [p \in {} |-> 0]

GetByte(blk, p) == IF p \in DOMAIN blk THEN blk[p] ELSE 0

SetByte(blk, p, v) ==
    IF v = 0
    THEN [q \in DOMAIN blk \ {p} |-> blk[q]]
    ELSE [q \in DOMAIN blk \cup {p} |-> IF q = p THEN v ELSE blk[q]]

---------------------------------------------------------------------------
(* Extents *)

Extent(block, length) == [block |-> block, length |-> length]

RECURSIVE SumLen(_)
SumLen(exts) ==
    IF exts = <<>> THEN 0 ELSE Head(exts).length + SumLen(Tail(exts))

ExtentBlocks(e) == BlockRange(e.block, BlocksFor(e.length))

RECURSIVE ExtentsBlocks(_)
ExtentsBlocks(exts) ==
    IF exts = <<>> THEN {}
    ELSE ExtentBlocks(Head(exts)) \cup ExtentsBlocks(Tail(exts))

\* <<block, position>> of byte `off` of the data the extents describe.
RECURSIVE Locate(_, _)
Locate(exts, off) ==
    IF off < Head(exts).length
    THEN <<Head(exts).block + (off \div BLOCK_SIZE), off % BLOCK_SIZE>>
    ELSE Locate(Tail(exts), off - Head(exts).length)

read_bytes(disk, exts, offset, count) ==
    [i \in 1..count |->
        LET l == Locate(exts, offset + i - 1) IN GetByte(disk[l[1]], l[2])]

RECURSIVE write_bytes(_, _, _, _)
write_bytes(disk, exts, offset, buf) ==
    IF buf = <<>> THEN disk
    ELSE LET l == Locate(exts, offset)
         IN write_bytes([disk EXCEPT ![l[1]] = SetByte(@, l[2], Head(buf))],
                        exts, offset + 1, Tail(buf))

---------------------------------------------------------------------------
(* Node layer.  A node record is kept in fs.nodes under its block index;   *)
(* DOMAIN fs.nodes is the set of blocks that hold a node.                  *)

Node(mode, name, parent, uid, time) ==
    [mode |-> mode, name |-> name, parent |-> parent,
     uid |-> uid, gid |-> uid,
     ctime |-> time[1], ctime_nsec |-> time[2],
     mtime |-> time[1], mtime_nsec |-> time[2],
     extents |-> <<>>]

is_dir(node) == node.mode = MODE_DIR

node_len(f, block) == SumLen(f.nodes[block].extents)

\* fs.node(block): the node record at `block`.
fs_node(f, block) ==
    IF block \in DOMAIN f.nodes THEN Result(OK, f, f.nodes[block])
    ELSE Result("ENOENT", f, 0)

---------------------------------------------------------------------------
(* Allocation / free list (specification 4.3).  The free list is the node  *)
(* at header.free; its extents are the free runs, lengths in bytes.        *)

FreeExtents(f) == f.nodes[f.header.free].extents

\* allocate, but handing out the front of the extent that keeps its front.
allocate_front(f, length) ==
    LET exts == FreeExtents(f)
        fit == {i \in 1..Len(exts) : exts[i].length \div BLOCK_SIZE >= length}
    IN  IF fit = {} THEN Result("ENOSPC", f, 0)
        ELSE LET i == Min(fit)
                 e == exts[i]
                 blocks == e.length \div BLOCK_SIZE
                 rest == IF blocks = length
                         THEN RemoveAt(exts, i)
                         ELSE [exts EXCEPT ![i].length = e.length - length * BLOCK_SIZE]
             IN  Result(OK, [f EXCEPT !.nodes[f.header.free].extents = rest], e.block)

\* First fit; a larger extent keeps its front and gives up its suffix, an
\* exact fit gives up its slot.
allocate(f, length) ==
    LET exts == FreeExtents(f)
        fit == {i \in 1..Len(exts) : exts[i].length \div BLOCK_SIZE >= length}
    IN  IF fit = {} THEN Result("ENOSPC", f, 0)
        ELSE LET i == Min(fit)
                 e == exts[i]
                 blocks == e.length \div BLOCK_SIZE
                 rest == IF blocks = length
                         THEN RemoveAt(exts, i)
                         ELSE [exts EXCEPT ![i].length = e.length - length * BLOCK_SIZE]
             IN  Result(OK, [f EXCEPT !.nodes[f.header.free].extents = rest],
                        e.block + blocks - length)

\* Insert a free run in the head free-list node, merged into the first
\* extent that is adjacent to it.  The bytes of a free block are not
\* observable through any extent; the model keeps a free block as zeros.
deallocate(f, block, length) ==
    LET exts == FreeExtents(f)
        adj == {i \in 1..Len(exts) :
                   \/ block + length = exts[i].block
                   \/ exts[i].block + (exts[i].length \div BLOCK_SIZE) = block}
        merged == IF adj = {} THEN Append(exts, Extent(block, length * BLOCK_SIZE))
                  ELSE LET i == Min(adj)
                       IN  [exts EXCEPT ![i] =
                              Extent(MinOf(block, @.block), @.length + length * BLOCK_SIZE)]
    IN  [f EXCEPT !.nodes[f.header.free].extents = merged,
                  !.disk = [b \in DOMAIN @ |->
                              IF b \in BlockRange(block, length) THEN EmptyBlock ELSE @[b]]]

RECURSIVE deallocate_all(_, _)
deallocate_all(f, runs) ==
    IF runs = <<>> THEN f
    ELSE deallocate_all(deallocate(f, Head(runs).block, Head(runs).blocks), Tail(runs))

---------------------------------------------------------------------------
(* node_set_len (specification 4.2) *)

\* <<extents kept, runs freed>> when `keep` bytes of the extents remain.
RECURSIVE ShrinkExtents(_, _)
ShrinkExtents(exts, keep) ==
    IF exts = <<>> THEN <<<<>>, <<>>>>
    ELSE LET e == Head(exts)
         IN  IF keep >= e.length
             THEN LET r == ShrinkExtents(Tail(exts), keep - e.length)
                  IN  <<<<e>> \o r[1], r[2]>>
             ELSE LET r == ShrinkExtents(Tail(exts), 0)
                      kb == BlocksFor(keep)
                      ab == BlocksFor(e.length)
                      kept == IF keep > 0 THEN <<Extent(e.block, keep)>> ELSE <<>>
                      freed == IF ab > kb
                               THEN <<[block |-> e.block + kb, blocks |-> ab - kb]>>
                               ELSE <<>>
                  IN  <<kept \o r[1], freed \o r[2]>>

shrink_node(f, block, new_len) ==
    LET r == ShrinkExtents(f.nodes[block].extents, new_len)
    IN  Result(OK, deallocate_all([f EXCEPT !.nodes[block].extents = r[1]], r[2]), 0)

\* Growing fills the unused tail of the last extent's last block, then
\* allocates one extent for the rest.  Nothing is written when the
\* allocation fails.
grow_node(f, block, new_len) ==
    LET exts == f.nodes[block].extents
        n == Len(exts)
        need == new_len - SumLen(exts)
        slack == IF n = 0 THEN 0
                 ELSE BlocksFor(exts[n].length) * BLOCK_SIZE - exts[n].length
        take == MinOf(slack, need)
        exts1 == IF take > 0 THEN [exts EXCEPT ![n].length = @ + take] ELSE exts
        rest == need - take
    IN  IF rest = 0
        THEN Result(OK, [f EXCEPT !.nodes[block].extents = exts1], 0)
        ELSE LET a == allocate(f, BlocksFor(rest))
             IN  IF a.err # OK THEN Result(a.err, f, 0)
                 ELSE Result(OK,
                        [a.fs EXCEPT !.nodes[block].extents =
                                        Append(exts1, Extent(a.val, rest))], 0)

node_set_len(f, block, new_len) ==
    LET cur == node_len(f, block)
    IN  IF new_len < cur THEN shrink_node(f, block, new_len)
        ELSE IF new_len > cur THEN grow_node(f, block, new_len)
        ELSE Result(OK, f, 0)

---------------------------------------------------------------------------
(* Directory bodies: a packed array of 8-byte little-endian block pointers *)

PtrBytes(block) == <<block % 256, (block \div 256) % 256, 0, 0, 0, 0, 0, 0>>

PtrAt(f, dir, i) ==
    LET b == read_bytes(f.disk, f.nodes[dir].extents, (i - 1) * PTR_SIZE, 2)
    IN  b[1] + 256 * b[2]

\* The child pointers of a directory, in the order they are stored.
Children(f, dir) ==
    [i \in 1..(node_len(f, dir) \div PTR_SIZE) |-> PtrAt(f, dir, i)]

---------------------------------------------------------------------------
(* Filesystem engine (specification 4.4) *)

find_node(f, name, parent_block) ==
    IF ~is_dir(f.nodes[parent_block]) THEN Result("ENOTDIR", f, 0)
    ELSE LET kids == Children(f, parent_block)
             hit == {i \in 1..Len(kids) : f.nodes[kids[i]].name = name}
         IN  IF hit = {} THEN Result("ENOENT", f, 0)
             ELSE Result(OK, f, kids[Min(hit)])

\* Children in stored order, as <<block, node>> pairs.
child_nodes(f, parent_block) ==
    IF ~is_dir(f.nodes[parent_block]) THEN Result("ENOTDIR", f, <<>>)
    ELSE LET kids == Children(f, parent_block)
         IN  Result(OK, f, [i \in 1..Len(kids) |-> <<kids[i], f.nodes[kids[i]]>>])

\* create_node, but keeping the node block when the parent cannot grow.
create_node_no_rollback(f, mode, name, parent_block, uid, time) ==
    LET found == find_node(f, name, parent_block)
    IN  IF found.err = "ENOTDIR" THEN Result("ENOTDIR", f, 0)
        ELSE IF found.err = OK THEN Result("EEXIST", f, 0)
        ELSE LET a == allocate(f, 1)
             IN  IF a.err # OK THEN Result(a.err, f, 0)
                 ELSE LET block == a.val
                          node == Node(mode, name, parent_block, uid, time)
                          len == node_len(a.fs, parent_block)
                          g == node_set_len(a.fs, parent_block, len + PTR_SIZE)
                      IN  IF g.err # OK
                          THEN Result(g.err, a.fs, 0)
                          ELSE LET disk1 == write_bytes(g.fs.disk,
                                                g.fs.nodes[parent_block].extents,
                                                len, PtrBytes(block))
                                   nodes1 == [b \in DOMAIN g.fs.nodes \cup {block} |->
                                                IF b = block THEN node ELSE g.fs.nodes[b]]
                               IN  Result(OK,
                                     [g.fs EXCEPT !.nodes = nodes1,
                                                  !.disk = [disk1 EXCEPT ![block] = EmptyBlock]],
                                     <<block, node>>)

create_node(f, mode, name, parent_block, uid, time) ==
    LET found == find_node(f, name, parent_block)
    IN  IF found.err = "ENOTDIR" THEN Result("ENOTDIR", f, 0)
        ELSE IF found.err = OK THEN Result("EEXIST", f, 0)
        ELSE LET a == allocate(f, 1)
             IN  IF a.err # OK THEN Result(a.err, f, 0)
                 ELSE LET block == a.val
                          node == Node(mode, name, parent_block, uid, time)
                          len == node_len(a.fs, parent_block)
                          g == node_set_len(a.fs, parent_block, len + PTR_SIZE)
                      IN  IF g.err # OK
                          THEN Result(g.err, deallocate(a.fs, block, 1), 0)
                          ELSE LET disk1 == write_bytes(g.fs.disk,
                                                g.fs.nodes[parent_block].extents,
                                                len, PtrBytes(block))
                                   nodes1 == [b \in DOMAIN g.fs.nodes \cup {block} |->
                                                IF b = block THEN node ELSE g.fs.nodes[b]]
                               IN  Result(OK,
                                     [g.fs EXCEPT !.nodes = nodes1,
                                                  !.disk = [disk1 EXCEPT ![block] = EmptyBlock]],
                                     <<block, node>>)

remove_node(f, mode, name, parent_block) ==
    LET found == find_node(f, name, parent_block)
    IN  IF found.err # OK THEN Result(found.err, f, 0)
        ELSE LET block == found.val
                 node == f.nodes[block]
             IN  IF node.mode # mode
                 THEN Result(IF mode = MODE_DIR THEN "ENOTDIR" ELSE "EISDIR", f, 0)
                 ELSE IF is_dir(node) /\ node_len(f, block) > 0
                 THEN Result("ENOTEMPTY", f, 0)
                 ELSE LET kids == Children(f, parent_block)
                          i == Min({k \in 1..Len(kids) : kids[k] = block})
                          \* swap with last, then shrink by one pointer
                          disk1 == write_bytes(f.disk, f.nodes[parent_block].extents,
                                               (i - 1) * PTR_SIZE,
                                               PtrBytes(kids[Len(kids)]))
                          p == node_set_len([f EXCEPT !.disk = disk1], parent_block,
                                            (Len(kids) - 1) * PTR_SIZE)
                          c == node_set_len(p.fs, block, 0)
                          d == deallocate(c.fs, block, 1)
                      IN  Result(OK,
                            [d EXCEPT !.nodes = [b \in DOMAIN d.nodes \ {block} |-> d.nodes[b]]],
                            0)

read_node(f, block, offset, len) ==
    LET size == node_len(f, block)
        count == IF offset >= size THEN 0 ELSE MinOf(len, size - offset)
    IN  Result(OK, f, read_bytes(f.disk, f.nodes[block].extents, offset, count))

NoTime == <<>>

\* `time` is << >> for the caller that passes no mtime (the FUSE adapter).
write_node(f, block, offset, buf, time) ==
    LET end == offset + Len(buf)
        g == IF end > node_len(f, block) THEN node_set_len(f, block, end)
             ELSE Result(OK, f, 0)
    IN  IF g.err # OK THEN Result(g.err, f, 0)
        ELSE LET f1 == IF end > node_len(f, block) /\ time # NoTime
                       THEN [g.fs EXCEPT !.nodes[block].mtime = time[1],
                                         !.nodes[block].mtime_nsec = time[2]]
                       ELSE g.fs
             IN  Result(OK,
                   [f1 EXCEPT !.disk = write_bytes(@, f1.nodes[block].extents, offset, buf)],
                   Len(buf))

---------------------------------------------------------------------------
(* A freshly formatted image: blocks 0-1 boot sector, block 2 the header,  *)
(* then the root directory node, the free-list node, and one free extent   *)
(* covering the rest (specification 6).                                    *)

HeaderBlock == 2

\* An image of n blocks with the root directory node at `root` and the
\* free-list node at `free`, the two blocks after the header.
FormatAt(n, root, free) ==
    [header |-> [block |-> HeaderBlock,
                 size |-> n * BLOCK_SIZE,
                 root |-> root,
                 free |-> free],
     nodes |-> [b \in {root, free} |->
                  IF b = root
                  THEN Node(MODE_DIR, "root", 0, 0, <<0, 0>>)
                  ELSE [Node(MODE_FILE, "free", 0, 0, <<0, 0>>) EXCEPT
                          !.extents = <<Extent(HeaderBlock + 3,
                                               (n - HeaderBlock - 3) * BLOCK_SIZE)>>]],
     disk |-> [b \in 0..(n - 1) |-> EmptyBlock]]

Format == FormatAt(NumBlocks, HeaderBlock + 1, HeaderBlock + 2)

\* Blocks [0, HeaderBlock]: boot sector and header.
ReservedBlocks == 0..HeaderBlock

\* The nodes of the directory tree (every node but the free-list node).
TreeNodes(f) == DOMAIN f.nodes \ {f.header.free}

\* Wall-clock readings <<seconds, nanoseconds>>.
Times == {<<1, 0>>, <<2, 7>>}

---------------------------------------------------------------------------
(* FUSE adapter (fuse/main.rs) *)

inode_block(f, ino) == f.header.root + ino - 1

block_inode(f, block) == block + 1 - f.header.root

\* node.1.extents[0].length: the extent array is zero-filled past its end.
Extent0Length(node) ==
    IF node.extents = <<>> THEN 0 ELSE node.extents[1].length

\* The FileAttr every entry/attr/created reply carries.
FileAttr(f, block, node) ==
    [ino |-> block_inode(f, block),
     size |-> Extent0Length(node),
     blocks |-> (Extent0Length(node) + 511) \div 512,
     kind |-> IF is_dir(node) THEN "Directory" ELSE "RegularFile",
     perm |-> 511, nlink |-> 1, uid |-> 0, gid |-> 0]

\* What a request hands to its reply object: reply.error(errno), or the
\* method named by `kind` with the value `val`.
Reply(op, kind, err, val) == [op |-> op, kind |-> kind, err |-> err, val |-> val]

ReplyError(op, err) == Reply(op, "error", err, 0)

Handled(f, r) == [fs |-> f, reply |-> r]

RedoxFS_statfs(f, ino) ==
    LET bsize == 512
        blocks == f.header.size \div bsize
        bfree == node_len(f, f.header.free) \div bsize
    IN  Handled(f, Reply("statfs", "statfs", OK,
                         [blocks |-> blocks, bfree |-> bfree, bavail |-> bfree,
                          bsize |-> bsize, namelen |-> 256]))

\* The free-block count statfs reports.
Bfree(f) == RedoxFS_statfs(f, 1).reply.val.bfree

RedoxFS_create(f, ino, name, time) ==
    LET parent_block == inode_block(f, ino)
        r == create_node(f, MODE_FILE, name, parent_block, 0, time)
    IN  IF r.err = OK
        THEN Handled(r.fs, Reply("create", "created", OK,
                                 FileAttr(r.fs, r.val[1], r.val[2])))
        ELSE Handled(r.fs, ReplyError("create", r.err))

RedoxFS_mkdir(f, ino, name, time) ==
    LET parent_block == inode_block(f, ino)
        r == create_node(f, MODE_DIR, name, parent_block, 0, time)
    IN  IF r.err = OK
        THEN Handled(r.fs, Reply("mkdir", "entry", OK,
                                 FileAttr(r.fs, r.val[1], r.val[2])))
        ELSE Handled(r.fs, ReplyError("mkdir", r.err))

\* rmdir, but asking the engine to remove a file.
RedoxFS_rmdir_mode_file(f, ino, name) ==
    LET parent_block == inode_block(f, ino)
        r == remove_node(f, MODE_FILE, name, parent_block)
    IN  IF r.err = OK
        THEN Handled(r.fs, Reply("rmdir", "ok", OK, 0))
        ELSE Handled(r.fs, ReplyError("rmdir", r.err))

RedoxFS_rmdir(f, ino, name) ==
    LET parent_block == inode_block(f, ino)
        r == remove_node(f, MODE_DIR, name, parent_block)
    IN  IF r.err = OK
        THEN Handled(r.fs, Reply("rmdir", "ok", OK, 0))
        ELSE Handled(r.fs, ReplyError("rmdir", r.err))

\* unlink, but asking the engine to remove a directory.
RedoxFS_unlink_mode_dir(f, ino, name) ==
    LET parent_block == inode_block(f, ino)
        r == remove_node(f, MODE_DIR, name, parent_block)
    IN  IF r.err = OK
        THEN Handled(r.fs, Reply("unlink", "ok", OK, 0))
        ELSE Handled(r.fs, ReplyError("unlink", r.err))

RedoxFS_unlink(f, ino, name) ==
    LET parent_block == inode_block(f, ino)
        r == remove_node(f, MODE_FILE, name, parent_block)
    IN  IF r.err = OK
        THEN Handled(r.fs, Reply("unlink", "ok", OK, 0))
        ELSE Handled(r.fs, ReplyError("unlink", r.err))

RedoxFS_lookup(f, ino, name) ==
    LET parent_block == inode_block(f, ino)
        r == find_node(f, name, parent_block)
    IN  IF r.err = OK
        THEN Handled(r.fs, Reply("lookup", "entry", OK, FileAttr(r.fs, r.val, r.fs.nodes[r.val])))
        ELSE Handled(r.fs, ReplyError("lookup", r.err))

RedoxFS_getattr(f, ino) ==
    LET block == inode_block(f, ino)
        r == fs_node(f, block)
    IN  IF r.err = OK
        THEN Handled(f, Reply("getattr", "attr", OK, FileAttr(f, block, r.val)))
        ELSE Handled(f, ReplyError("getattr", r.err))

\* setattr applying the size it is given (the TODO of the code).
RedoxFS_setattr_truncates(f, ino, attrs) ==
    LET block == inode_block(f, ino)
        g == IF attrs.size # <<>> /\ block \in DOMAIN f.nodes
             THEN node_set_len(f, block, attrs.size[1]).fs ELSE f
        r == fs_node(g, block)
    IN  IF r.err = OK
        THEN Handled(g, Reply("setattr", "attr", OK, FileAttr(g, block, r.val)))
        ELSE Handled(g, ReplyError("setattr", r.err))

\* `attrs`: the Option arguments mode, uid, gid, size, mtime (<< >> is None),
\* none of which the code reads.
RedoxFS_setattr(f, ino, attrs) ==
    LET block == inode_block(f, ino)
        r == fs_node(f, block)
    IN  IF r.err = OK
        THEN Handled(f, Reply("setattr", "attr", OK, FileAttr(f, block, r.val)))
        ELSE Handled(f, ReplyError("setattr", r.err))

RedoxFS_flush(f, ino) == Handled(f, Reply("flush", "ok", OK, 0))

RedoxFS_fsync(f, ino, datasync) == Handled(f, Reply("fsync", "ok", OK, 0))

DirEntry(ino, i, kind, name) == [ino |-> ino, offset |-> i, kind |-> kind, name |-> name]

\* readdir that emits the entries at every offset.
RedoxFS_readdir_any_offset(f, ino, offset) ==
    LET parent_block == inode_block(f, ino)
        r == child_nodes(f, parent_block)
        children == r.val
    IN  IF r.err = OK
        THEN Handled(f, Reply("readdir", "directory", OK,
                 <<DirEntry(parent_block - f.header.block, 0, "Directory", "."),
                   DirEntry(parent_block - f.header.block, 1, "Directory", "..")>>
                 \o [k \in 1..Len(children) |->
                       DirEntry(children[k][1] - f.header.block, k + 1,
                                IF is_dir(children[k][2]) THEN "Directory" ELSE "RegularFile",
                                children[k][2].name)]))
        ELSE Handled(f, ReplyError("readdir", r.err))

\* The reply carries the entries added to it, in order.
RedoxFS_readdir(f, ino, offset) ==
    LET parent_block == inode_block(f, ino)
        r == child_nodes(f, parent_block)
        children == r.val
    IN  IF r.err = OK
        THEN Handled(f, Reply("readdir", "directory", OK,
                 IF offset = 0
                 THEN <<DirEntry(parent_block - f.header.block, 0, "Directory", "."),
                        DirEntry(parent_block - f.header.block, 1, "Directory", "..")>>
                      \o [k \in 1..Len(children) |->
                            DirEntry(children[k][1] - f.header.block, k + 1,
                                     IF is_dir(children[k][2]) THEN "Directory" ELSE "RegularFile",
                                     children[k][2].name)]
                 ELSE <<>>))
        ELSE Handled(f, ReplyError("readdir", r.err))

RedoxFS_read(f, ino, offset, size) ==
    LET block == inode_block(f, ino)
        r == read_node(f, block, offset, size)
    IN  IF r.err = OK
        THEN Handled(r.fs, Reply("read", "data", OK, r.val))
        ELSE Handled(r.fs, ReplyError("read", r.err))

RedoxFS_write(f, ino, offset, data) ==
    LET block == inode_block(f, ino)
        r == write_node(f, block, offset, data, NoTime)
    IN  IF r.err = OK
        THEN Handled(r.fs, Reply("write", "written", OK, r.val))
        ELSE Handled(r.fs, ReplyError("write", r.err))

---------------------------------------------------------------------------
(* The FUSE host: requests arrive one at a time for inodes the kernel      *)
(* holds (nodes of the tree); read and write only for regular files.       *)

Inodes(f) == {block_inode(f, b) : b \in TreeNodes(f)}

FileInodes(f) == {block_inode(f, b) : b \in {n \in TreeNodes(f) : ~is_dir(f.nodes[n])}}

FuseOffsets == {0, 512}

FuseData == {<<7>>}

FuseSizes == {2}

\* The clock reading of every FUSE request: no FUSE reply shows a time.
FuseTimes == {<<1, 0>>}

NoHist == [kind |-> "none"]

\* After a create or mkdir that succeeded: the request and the free count
\* before it.  After the unlink (rmdir) that directly follows a create
\* (mkdir) for the same name in the same parent: the same, marked removed.
HistAfter(f, op, ino, name, r) ==
    IF op \in {"create", "mkdir"} /\ r.err = OK
    THEN [kind |-> "created", op |-> op, ino |-> ino, name |-> name,
          bfree |-> Bfree(f), after |-> Bfree(r.fs)]
    ELSE IF /\ op \in {"unlink", "rmdir"}
            /\ hist.kind = "created"
            /\ ino = hist.ino /\ name = hist.name
            /\ (op = "unlink") = (hist.op = "create")
    THEN [hist EXCEPT !.kind = "removed", !.op = op]
    ELSE NoHist

Serve(h, ino, name) ==
    /\ proc.pc = "serving"
    /\ fs' = h.fs
    /\ reply' = h.reply
    /\ hist' = HistAfter(fs, h.reply.op, ino, name, [err |-> h.reply.err, fs |-> h.fs])
    /\ UNCHANGED <<files, opened, proc, ret>>

Fuse_statfs == \E ino \in {1} : Serve(RedoxFS_statfs(fs, ino), ino, "")

Fuse_create ==
    \E ino \in Inodes(fs), name \in Names, t \in FuseTimes :
        Serve(RedoxFS_create(fs, ino, name, t), ino, name)

Fuse_mkdir ==
    \E ino \in Inodes(fs), name \in DirNames, t \in FuseTimes :
        Serve(RedoxFS_mkdir(fs, ino, name, t), ino, name)

Fuse_rmdir == \E ino \in Inodes(fs), name \in Names : Serve(RedoxFS_rmdir(fs, ino, name), ino, name)

Fuse_unlink == \E ino \in Inodes(fs), name \in Names : Serve(RedoxFS_unlink(fs, ino, name), ino, name)

Fuse_read ==
    \E ino \in FileInodes(fs), offset \in FuseOffsets, size \in FuseSizes :
        Serve(RedoxFS_read(fs, ino, offset, size), ino, "")

Fuse_write ==
    \E ino \in FileInodes(fs), offset \in FuseOffsets, data \in FuseData :
        Serve(RedoxFS_write(fs, ino, offset, data), ino, "")

\* The process once the host serves requests: nothing printed, not exited.
Serving == [pc |-> "serving", out |-> <<>>, status |-> "none"]

NoFiles == <<>>

NoRet == [op |-> "none", err |-> OK, val |-> 0, buf |-> <<>>]

Init ==
    /\ fs = Format
    /\ reply = Reply("mount", "ok", OK, 0)
    /\ hist = NoHist
    /\ files = NoFiles
    /\ opened = NoFiles
    /\ proc = Serving
    /\ ret = NoRet

Next ==
    \/ Fuse_statfs
    \/ Fuse_create
    \/ Fuse_mkdir
    \/ Fuse_rmdir
    \/ Fuse_unlink
    \/ Fuse_read
    \/ Fuse_write

Spec == Init /\ [][Next]_vars

----------------------------------------------------------------------------
(* The program from its start: main (fuse/main.rs), then the mounted host *)

\* Blocks of the images given to main.
MainBlocks == NumBlocks - 1

\* The files a path on the command line can name: two valid images that
\* differ in where the header puts the root and the free-list node, and one
\* file that is no filesystem.  Any other path names no file.
ImageFiles ==
    [p \in {"a.img", "b.img", "corrupt.img"} |->
        CASE p = "a.img" -> [signature |-> "RedoxFS",
                             fs |-> FormatAt(MainBlocks, HeaderBlock + 1, HeaderBlock + 2)]
          [] p = "b.img" -> [signature |-> "RedoxFS",
                             fs |-> FormatAt(MainBlocks, HeaderBlock + 2, HeaderBlock + 1)]
          [] OTHER -> [signature |-> "", fs |-> 0]]

\* env::args() after the program name.
ArgLists ==
    {<<>>, <<"a.img">>, <<"b.img">>, <<"a.img", "mnt">>, <<"b.img", "mnt">>,
     <<"corrupt.img", "mnt">>, <<"missing.img", "mnt">>}

Image_open(path) ==
    IF path \in DOMAIN ImageFiles THEN Result(OK, 0, ImageFiles[path])
    ELSE Result("ENOENT", 0, 0)

\* FileSystem::open: fails with bad-format unless the header's signature
\* matches.
FileSystem_open(disk) ==
    IF disk.signature = "RedoxFS" THEN Result(OK, disk.fs, 0)
    ELSE Result("EINVAL", 0, 0)

\* No filesystem opened.
NoFs == [header |-> [block |-> 0, size |-> 0, root |-> 0, free |-> 0],
         nodes |-> <<>>, disk |-> <<>>]

\* The status of a process whose main returned.
ExitOfMain == 0

Exited(out) == [pc |-> "exited", out |-> out, status |-> ExitOfMain, fs |-> NoFs]

\* main up to the call of fuse::mount, or to its return when it never mounts.
main(args) ==
    IF Len(args) >= 1
    THEN LET path == args[1]
             disk == Image_open(path)
         IN  IF disk.err = OK
             THEN LET filesystem == FileSystem_open(disk.val)
                  IN  IF filesystem.err = OK
                      THEN IF Len(args) >= 2
                           THEN [pc |-> "serving",
                                 out |-> <<"redoxfs: opened filesystem">>,
                                 status |-> "none", fs |-> filesystem.fs]
                           ELSE Exited(<<"redoxfs: opened filesystem",
                                         "redoxfs: no mount point provided">>)
                      ELSE Exited(<<"redoxfs: failed to open filesystem">>)
             ELSE Exited(<<"redoxfs: failed to open image">>)
    ELSE Exited(<<"redoxfs: no disk image provided">>)

Main_start ==
    /\ proc.pc = "start"
    /\ LET m == main(proc.args)
       IN  /\ proc' = [proc EXCEPT !.pc = m.pc, !.out = m.out, !.status = m.status,
                                   !.mounted = (m.pc = "serving")]
           /\ fs' = m.fs
           /\ reply' = IF m.pc = "serving" THEN Reply("mount", "ok", OK, 0) ELSE reply
    /\ UNCHANGED <<files, opened, ret, hist>>

\* fuse::mount returns when the filesystem is unmounted, and main returns.
Main_unmount ==
    /\ proc.pc = "serving"
    /\ proc' = [proc EXCEPT !.pc = "exited", !.status = ExitOfMain]
    /\ UNCHANGED <<fs, reply, files, opened, ret, hist>>

\* The Option arguments of setattr.
SetAttr(mode, uid, gid, size, mtime) ==
    [mode |-> mode, uid |-> uid, gid |-> gid, size |-> size, mtime |-> mtime]

SetAttrs ==
    {SetAttr(<<>>, <<>>, <<>>, <<>>, <<>>),
     SetAttr(<<>>, <<>>, <<>>, <<512>>, <<>>),
     SetAttr(<<420>>, <<1>>, <<1>>, <<0>>, <<<<2, 7>>>>)}

ReaddirOffsets == {0, 1}

Fuse_lookup ==
    \E ino \in Inodes(fs), name \in Names : Serve(RedoxFS_lookup(fs, ino, name), ino, name)

Fuse_getattr == \E ino \in Inodes(fs) : Serve(RedoxFS_getattr(fs, ino), ino, "")

Fuse_setattr ==
    \E ino \in Inodes(fs), attrs \in SetAttrs : Serve(RedoxFS_setattr(fs, ino, attrs), ino, "")

Fuse_flush == \E ino \in FileInodes(fs) : Serve(RedoxFS_flush(fs, ino), ino, "")

Fuse_fsync ==
    \E ino \in FileInodes(fs), datasync \in BOOLEAN : Serve(RedoxFS_fsync(fs, ino, datasync), ino, "")

Fuse_readdir ==
    \E ino \in Inodes(fs), offset \in ReaddirOffsets :
        Serve(RedoxFS_readdir(fs, ino, offset), ino, "")

InitMain ==
    /\ proc \in {[pc |-> "start", out |-> <<>>, status |-> "none", mounted |-> FALSE,
                  args |-> a] : a \in ArgLists}
    /\ fs = NoFs
    /\ reply = Reply("none", "none", OK, 0)
    /\ hist = NoHist
    /\ files = NoFiles
    /\ opened = NoFiles
    /\ ret = NoRet

NextMain ==
    \/ Main_start
    \/ Main_unmount
    \/ Fuse_create
    \/ Fuse_mkdir
    \/ Fuse_rmdir
    \/ Fuse_unlink
    \/ Fuse_lookup
    \/ Fuse_getattr
    \/ Fuse_setattr
    \/ Fuse_flush
    \/ Fuse_fsync
    \/ Fuse_readdir

SpecMain == InitMain /\ [][NextMain]_vars

---------------------------------------------------------------------------
(* Resource layer (src/mount/redox/resource.rs): FileResource *)

FileResource_new(path, block, flags, seek, uid) ==
    [path |-> path, block |-> block, flags |-> flags, seek |-> seek, uid |-> uid]

\* What a resource call leaves: the handle, the filesystem, and its Result
\* (err = OK with the value, or the errno); `buf` is what a read put in the
\* caller's buffer.
Called(self, f, err, val, buf) ==
    [self |-> self, fs |-> f, err |-> err, val |-> val, buf |-> buf]

\* FileResource::read without the test of the access mode.
FileResource_read_ungated(self, len, f) ==
    LET r == read_node(f, self.block, self.seek, len)
        count == Len(r.val)
    IN  IF r.err # OK THEN Called(self, r.fs, r.err, 0, <<>>)
        ELSE Called([self EXCEPT !.seek = (@ + count) % Word], r.fs, OK, count, r.val)

\* FileResource::read that leaves seek where it was.
FileResource_read_no_advance(self, len, f) ==
    IF \/ BitAnd(self.flags, O_ACCMODE) = O_RDWR
       \/ BitAnd(self.flags, O_ACCMODE) = O_RDONLY
    THEN LET r == read_node(f, self.block, self.seek, len)
         IN  IF r.err # OK THEN Called(self, r.fs, r.err, 0, <<>>)
             ELSE Called(self, r.fs, OK, Len(r.val), r.val)
    ELSE Called(self, f, "EBADF", 0, <<>>)

FileResource_read(self, len, f) ==
    IF \/ BitAnd(self.flags, O_ACCMODE) = O_RDWR
       \/ BitAnd(self.flags, O_ACCMODE) = O_RDONLY
    THEN LET r == read_node(f, self.block, self.seek, len)
             count == Len(r.val)
         IN  IF r.err # OK THEN Called(self, r.fs, r.err, 0, <<>>)
             ELSE Called([self EXCEPT !.seek = (@ + count) % Word],
                         r.fs, OK, count, r.val)
    ELSE Called(self, f, "EBADF", 0, <<>>)

\* FileResource::write without the test of the access mode.
FileResource_write_ungated(self, buf, f, now) ==
    LET r == write_node(f, self.block, self.seek, buf, now)
    IN  IF r.err # OK THEN Called(self, r.fs, r.err, 0, <<>>)
        ELSE Called([self EXCEPT !.seek = (@ + r.val) % Word], r.fs, OK, r.val, <<>>)

\* FileResource::write writing at the end of the file instead of at seek.
FileResource_write_at_end(self, buf, f, now) ==
    IF \/ BitAnd(self.flags, O_ACCMODE) = O_RDWR
       \/ BitAnd(self.flags, O_ACCMODE) = O_WRONLY
    THEN LET r == write_node(f, self.block, node_len(f, self.block), buf, now)
         IN  IF r.err # OK THEN Called(self, r.fs, r.err, 0, <<>>)
             ELSE Called([self EXCEPT !.seek = (@ + r.val) % Word], r.fs, OK, r.val, <<>>)
    ELSE Called(self, f, "EBADF", 0, <<>>)

FileResource_write(self, buf, f, now) ==
    IF \/ BitAnd(self.flags, O_ACCMODE) = O_RDWR
       \/ BitAnd(self.flags, O_ACCMODE) = O_WRONLY
    THEN LET mtime == now
             r == write_node(f, self.block, self.seek, buf, mtime)
             count == r.val
         IN  IF r.err # OK THEN Called(self, r.fs, r.err, 0, <<>>)
             ELSE Called([self EXCEPT !.seek = (@ + count) % Word],
                         r.fs, OK, count, <<>>)
    ELSE Called(self, f, "EBADF", 0, <<>>)

\* The build profiles: with overflow checks (an overflowing `+` panics)
\* and without (it wraps).
Builds == {"debug", "release"}

Overflows(x) == x > MaxSigned \/ x < -MaxSigned - 1

\* A signed sum as the release build computes it.
WrapSigned(x) == AsSigned(x % Word)

FileResource_seek(self, offset, whence, f, build) ==
    LET size == node_len(f, self.block)
        base == IF whence = SEEK_SET THEN 0
                ELSE IF whence = SEEK_CUR THEN AsSigned(self.seek)
                ELSE AsSigned(size)
        sum == base + AsSigned(offset)
    IN  IF whence \notin {SEEK_SET, SEEK_CUR, SEEK_END}
        THEN Called(self, f, "EINVAL", 0, <<>>)
        ELSE IF Overflows(sum) /\ build = "debug"
        THEN Called(self, f, "panic", 0, <<>>)
        ELSE LET pos == AsUnsigned(MaxOf(0, WrapSigned(sum)))
             IN  Called([self EXCEPT !.seek = pos], f, OK, pos, <<>>)

\* FileResource::fcntl with F_SETFL storing arg as the flags.
FileResource_fcntl_replace_all(self, cmd, arg, f) ==
    IF cmd = F_GETFL THEN Called(self, f, OK, self.flags, <<>>)
    ELSE IF cmd = F_SETFL THEN Called([self EXCEPT !.flags = arg], f, OK, 0, <<>>)
    ELSE Called(self, f, "EINVAL", 0, <<>>)

FileResource_fcntl(self, cmd, arg, f) ==
    IF cmd = F_GETFL THEN Called(self, f, OK, self.flags, <<>>)
    ELSE IF cmd = F_SETFL
    THEN Called([self EXCEPT !.flags = BitOr(BitAnd(self.flags, O_ACCMODE),
                                             BitAnd(arg, BitNot(O_ACCMODE)))],
                f, OK, 0, <<>>)
    ELSE Called(self, f, "EINVAL", 0, <<>>)

\* FileResource::truncate without the test of the access mode.
FileResource_truncate_ungated(self, len, f) ==
    LET r == node_set_len(f, self.block, len)
    IN  IF r.err # OK THEN Called(self, r.fs, r.err, 0, <<>>)
        ELSE Called(self, r.fs, OK, 0, <<>>)

FileResource_truncate(self, len, f) ==
    IF \/ BitAnd(self.flags, O_ACCMODE) = O_RDWR
       \/ BitAnd(self.flags, O_ACCMODE) = O_WRONLY
    THEN LET r == node_set_len(f, self.block, len)
         IN  IF r.err # OK THEN Called(self, r.fs, r.err, 0, <<>>)
             ELSE Called(self, r.fs, OK, 0, <<>>)
    ELSE Called(self, f, "EBADF", 0, <<>>)

\* A TimeSpec is <<tv_sec, tv_nsec>>, both signed.
\* `mtime.tv_sec as u64` and `mtime.tv_nsec as u32` reinterpret the signed
\* value as unsigned; both widths are scaled to the model's word.
TimeAsUnsigned(ts) == <<AsUnsigned(ts[1]), AsUnsigned(ts[2])>>

\* FileResource::utimens without the test of the owner.
FileResource_utimens_any_uid(self, times, f) ==
    LET n == fs_node(f, self.block)
    IN  IF n.err # OK THEN Called(self, f, n.err, 0, <<>>)
        ELSE IF Len(times) >= 2
        THEN Called(self,
                    [f EXCEPT !.nodes[self.block].mtime = TimeAsUnsigned(times[2])[1],
                              !.nodes[self.block].mtime_nsec = TimeAsUnsigned(times[2])[2]],
                    OK, 0, <<>>)
        ELSE Called(self, f, OK, 0, <<>>)

FileResource_utimens(self, times, f) ==
    LET n == fs_node(f, self.block)
    IN  IF n.err # OK THEN Called(self, f, n.err, 0, <<>>)
        ELSE IF n.val.uid = self.uid \/ self.uid = 0
        THEN IF Len(times) >= 2
             THEN LET mtime == times[2]
                      node == [n.val EXCEPT !.mtime = TimeAsUnsigned(mtime)[1],
                                            !.mtime_nsec = TimeAsUnsigned(mtime)[2]]
                  IN  Called(self, [f EXCEPT !.nodes[self.block] = node], OK, 0, <<>>)
             ELSE Called(self, f, OK, 0, <<>>)
        ELSE Called(self, f, "EBADF", 0, <<>>)

FileResource_stat(self, f) ==
    LET n == fs_node(f, self.block)
    IN  IF n.err # OK THEN Called(self, f, n.err, 0, <<>>)
        ELSE Called(self, f, OK, 0,
                    [st_ino |-> self.block, st_mode |-> n.val.mode, st_nlink |-> 1,
                     st_uid |-> n.val.uid, st_gid |-> n.val.gid,
                     st_size |-> node_len(f, self.block),
                     st_mtime |-> n.val.mtime, st_mtime_nsec |-> n.val.mtime_nsec,
                     st_ctime |-> n.val.ctime, st_ctime_nsec |-> n.val.ctime_nsec])

FileResource_sync(self, f) == Called(self, f, OK, 0, <<>>)

\* FileResource::dup with the new handle rewound to seek 0.
FileResource_dup_rewound(self, f) ==
    Called(self, f, OK, [path |-> self.path, block |-> self.block,
                         flags |-> self.flags, seek |-> 0, uid |-> self.uid], <<>>)

\* The value returned is the new resource.
FileResource_dup(self, f) ==
    Called(self, f, OK, [path |-> self.path, block |-> self.block,
                         flags |-> self.flags, seek |-> self.seek, uid |-> self.uid], <<>>)

---------------------------------------------------------------------------
(* Resource layer: DirResource.  `data` is an Option<Vec<u8>>: << >> is     *)
(* None and <<v>> is Some(v).                                              *)

None == <<>>

Some(v) == <<v>>

DirResource_new(path, block, data) ==
    [path |-> path, block |-> block, data |-> data, seek |-> 0]

DirResource_dup(self, f) ==
    Called(self, f, OK, [path |-> self.path, block |-> self.block,
                         data |-> self.data, seek |-> self.seek], <<>>)

\* DirResource::read that copies without advancing seek.
DirResource_read_no_advance(self, len, f) ==
    IF self.data = None THEN Called(self, f, "EISDIR", 0, <<>>)
    ELSE LET data == self.data[1]
             i == IF self.seek < Len(data) THEN MinOf(len, Len(data) - self.seek) ELSE 0
         IN  Called(self, f, OK, i, SubSeq(data, self.seek + 1, self.seek + i))

\* The loop copies while i < buf.len() and seek < data.len().
DirResource_read(self, len, f) ==
    IF self.data = None THEN Called(self, f, "EISDIR", 0, <<>>)
    ELSE LET data == self.data[1]
             i == IF self.seek < Len(data) THEN MinOf(len, Len(data) - self.seek) ELSE 0
         IN  Called([self EXCEPT !.seek = @ + i], f, OK, i,
                    SubSeq(data, self.seek + 1, self.seek + i))

\* DirResource::write that accepts the buffer and reports it written.
DirResource_write_accepts(self, buf, f) == Called(self, f, OK, Len(buf), <<>>)

DirResource_write(self, buf, f) == Called(self, f, "EBADF", 0, <<>>)

\* DirResource::seek without the min(data.len(), ..) clamp.
DirResource_seek_unclamped(self, offset, whence, f, build) ==
    IF self.data = None THEN Called(self, f, "EBADF", 0, <<>>)
    ELSE LET base == IF whence = SEEK_SET THEN 0
                     ELSE IF whence = SEEK_CUR THEN AsSigned(self.seek)
                     ELSE Len(self.data[1])
             sum == base + AsSigned(offset)
         IN  IF whence \notin {SEEK_SET, SEEK_CUR, SEEK_END}
             THEN Called(self, f, "EINVAL", 0, <<>>)
             ELSE IF Overflows(sum) /\ build = "debug"
             THEN Called(self, f, "panic", 0, <<>>)
             ELSE LET pos == AsUnsigned(MaxOf(0, WrapSigned(sum)))
                  IN  Called([self EXCEPT !.seek = pos], f, OK, pos, <<>>)

DirResource_seek(self, offset, whence, f, build) ==
    IF self.data = None THEN Called(self, f, "EBADF", 0, <<>>)
    ELSE LET len == AsSigned(Len(self.data[1]))
             base == IF whence = SEEK_SET THEN 0
                     ELSE IF whence = SEEK_CUR THEN AsSigned(self.seek)
                     ELSE len
             sum == base + AsSigned(offset)
         IN  IF whence \notin {SEEK_SET, SEEK_CUR, SEEK_END}
             THEN Called(self, f, "EINVAL", 0, <<>>)
             ELSE IF Overflows(sum) /\ build = "debug"
             THEN Called(self, f, "panic", 0, <<>>)
             ELSE LET pos == AsUnsigned(MaxOf(0, MinOf(len, WrapSigned(sum))))
                  IN  Called([self EXCEPT !.seek = pos], f, OK, pos, <<>>)

DirResource_fcntl(self, cmd, arg, f) == Called(self, f, "EBADF", 0, <<>>)

DirResource_sync(self, f) == Called(self, f, "EBADF", 0, <<>>)

DirResource_truncate(self, len, f) == Called(self, f, "EBADF", 0, <<>>)

DirResource_utimens(self, times, f) == Called(self, f, "EBADF", 0, <<>>)

---------------------------------------------------------------------------
(* The Redox host: one image holding the file "a", owned by uid 1, and the *)
(* handles opened on it.  Calls arrive one at a time.                      *)

ResInitFs == create_node(Format, MODE_FILE, "a", Format.header.root, 1, <<1, 0>>).fs

FileBlock == find_node(ResInitFs, "a", ResInitFs.header.root).val

HandleIds == {1}

OpenFlags == {O_RDONLY, O_WRONLY, O_RDWR, O_NONBLOCK}

OpenUids == {1}

\* Arguments of the calls that are taken as steps.  The claims about one
\* call quantify over the larger sets below.
ReadLens == {0, 2, 3}

WriteBufs == {<<1, 2>>, <<>>}

\* Positions at which read and write steps are taken.
ReadSeeks == {0, 2, 511}

WriteSeeks == {0, 511, MaxSigned}

WriteTimes == {<<2, 7>>}

SeekSteps ==
    ({SEEK_SET} \X {0, 511, MaxSigned, Word - 1})
    \cup ({SEEK_CUR} \X {0, MaxSigned})
    \cup ({SEEK_END} \X {0, Word - 1})
    \cup ({3} \X {0})

FcntlSteps == {<<F_GETFL, 0>>, <<F_SETFL, O_APPEND + O_RDWR>>, <<7, 0>>}

TruncateLens == {0, 1, 513, 4096}

Ret(op, c) == [op |-> op, err |-> c.err, val |-> c.val, buf |-> c.buf]

\* After a write at seek 0 that returned the buffer's length: "wrote"; after
\* the seek(0, SEEK_SET) that directly follows it: "rewound"; after the
\* read of that many bytes that directly follows that: "readback" with what
\* the read returned.
ResHistAfter(op, self, arg, c) ==
    IF op = "write" /\ self.seek = 0 /\ c.err = OK /\ c.val = Len(arg)
    THEN [kind |-> "wrote", buf |-> arg]
    ELSE IF op = "seek" /\ hist.kind = "wrote" /\ arg = <<SEEK_SET, 0>> /\ c.err = OK
    THEN [hist EXCEPT !.kind = "rewound"]
    ELSE IF op = "read" /\ hist.kind = "rewound" /\ arg = Len(hist.buf)
    THEN [kind |-> "readback", buf |-> hist.buf, err |-> c.err, count |-> c.val, got |-> c.buf]
    ELSE NoHist

Alive == ret.err # "panic"

Call(h, op, arg, c) ==
    /\ files' = [files EXCEPT ![h] = c.self]
    /\ fs' = c.fs
    /\ ret' = Ret(op, c)
    /\ hist' = ResHistAfter(op, files[h], arg, c)
    /\ UNCHANGED <<reply, opened, proc>>

Res_open ==
    /\ Alive
    /\ \E h \in HandleIds \ DOMAIN files, flags \in OpenFlags, uid \in OpenUids :
          /\ files' = [i \in DOMAIN files \cup {h} |->
                         IF i = h THEN FileResource_new("a", FileBlock, flags, 0, uid)
                         ELSE files[i]]
          /\ opened' = [i \in DOMAIN files \cup {h} |-> IF i = h THEN flags ELSE opened[i]]
          /\ ret' = [op |-> "open", err |-> OK, val |-> h, buf |-> <<>>]
          /\ hist' = NoHist
          /\ UNCHANGED <<fs, reply, proc>>

Res_close ==
    /\ Alive
    /\ \E h \in DOMAIN files :
          /\ files' = [i \in DOMAIN files \ {h} |-> files[i]]
          /\ opened' = [i \in DOMAIN files \ {h} |-> opened[i]]
          /\ ret' = [op |-> "close", err |-> OK, val |-> 0, buf |-> <<>>]
          /\ hist' = NoHist
          /\ UNCHANGED <<fs, reply, proc>>

Res_read ==
    /\ Alive
    /\ \E h \in DOMAIN files, len \in ReadLens :
          /\ files[h].seek \in ReadSeeks
          /\ Call(h, "read", len, FileResource_read(files[h], len, fs))

Res_write ==
    /\ Alive
    /\ \E h \in DOMAIN files, buf \in WriteBufs, now \in WriteTimes :
          /\ files[h].seek \in WriteSeeks
          /\ Call(h, "write", buf, FileResource_write(files[h], buf, fs, now))

Res_seek ==
    /\ Alive
    /\ \E h \in DOMAIN files, s \in SeekSteps, build \in Builds :
          Call(h, "seek", s, FileResource_seek(files[h], s[2], s[1], fs, build))

Res_fcntl ==
    /\ Alive
    /\ \E h \in DOMAIN files, a \in FcntlSteps :
          Call(h, "fcntl", a, FileResource_fcntl(files[h], a[1], a[2], fs))

Res_truncate ==
    /\ Alive
    /\ \E h \in DOMAIN files, len \in TruncateLens :
          Call(h, "truncate", len, FileResource_truncate(files[h], len, fs))

InitRes ==
    /\ fs = ResInitFs
    /\ reply = Reply("mount", "ok", OK, 0)
    /\ hist = NoHist
    /\ files = NoFiles
    /\ opened = NoFiles
    /\ proc = Serving
    /\ ret = NoRet

NextRes ==
    \/ Res_open
    \/ Res_close
    \/ Res_read
    \/ Res_write
    \/ Res_seek
    \/ Res_fcntl
    \/ Res_truncate

SpecRes == InitRes /\ [][NextRes]_vars

---------------------------------------------------------------------------
(* The Redox host serving users of several uids: the file "a" belongs to   *)
(* uid 1; handles are opened for uid 0 (root), the owner, and a stranger.  *)

OwnUids == {0, 1, 2}

OwnFlags == {O_RDONLY, O_WRONLY}

\* The `times` slices passed to utimens: <<atime, mtime>>, shorter, longer.
TimeLists ==
    {<<>>, <<<<5, 6>>>>, <<<<5, 6>>, <<9, 3>>>>, <<<<0, 0>>, <<-1, 0>>>>,
     <<<<5, 6>>, <<4, 4>>, <<8, 8>>>>}

Res_open_as ==
    /\ Alive
    /\ \E h \in HandleIds \ DOMAIN files, flags \in OwnFlags, uid \in OwnUids :
          /\ files' = [i \in DOMAIN files \cup {h} |->
                         IF i = h THEN FileResource_new("a", FileBlock, flags, 0, uid)
                         ELSE files[i]]
          /\ opened' = [i \in DOMAIN files \cup {h} |-> IF i = h THEN flags ELSE opened[i]]
          /\ ret' = [op |-> "open", err |-> OK, val |-> h, buf |-> <<>>]
          /\ hist' = NoHist
          /\ UNCHANGED <<fs, reply, proc>>

Res_utimens ==
    /\ Alive
    /\ \E h \in DOMAIN files, times \in TimeLists :
          Call(h, "utimens", times, FileResource_utimens(files[h], times, fs))

Res_stat ==
    /\ Alive
    /\ \E h \in DOMAIN files :
          Call(h, "stat", 0, FileResource_stat(files[h], fs))

Res_sync ==
    /\ Alive
    /\ \E h \in DOMAIN files :
          Call(h, "sync", 0, FileResource_sync(files[h], fs))

NextOwn ==
    \/ Res_open_as
    \/ Res_close
    \/ Res_write
    \/ Res_utimens
    \/ Res_stat
    \/ Res_sync

SpecOwn == InitRes /\ [][NextOwn]_vars

---------------------------------------------------------------------------
(* The Redox host with file and directory handles and dup.  A handle is a  *)
(* Box<Resource>: a call goes to the FileResource or the DirResource       *)
(* method according to what the handle holds.  The first handle is opened  *)
(* on the file "a" or on the root directory; further handles come from dup. *)

IsDirResource(r) == "data" \in DOMAIN r

DupIds == {1, 2}

DupFlags == {O_RDONLY, O_RDWR}

\* The listing handed to DirResource::new: none, empty, "a\nb".
DirDatas == {None, Some(<<>>), Some(<<97, 10, 98>>)}

HndReadLens == {0, 2}

HndWriteSeeks == {0}

HndFileSeeks == {<<SEEK_SET, 0>>, <<SEEK_SET, 1>>, <<SEEK_END, 0>>}

HndDirSeeks ==
    ({SEEK_SET} \X {0, 2, MaxSigned, Word - 1})
    \cup ({SEEK_CUR} \X {1, MaxSigned, Word - 1})
    \cup ({SEEK_END} \X {0, 1, MaxSigned, Word - 1})
    \cup ({3} \X {0})

HndFcntls == {<<F_GETFL, 0>>, <<F_SETFL, O_APPEND>>}

Resource_dup(self, f) ==
    IF IsDirResource(self) THEN DirResource_dup(self, f) ELSE FileResource_dup(self, f)

Resource_read(self, len, f) ==
    IF IsDirResource(self) THEN DirResource_read(self, len, f)
    ELSE FileResource_read(self, len, f)

Resource_write(self, buf, f, now) ==
    IF IsDirResource(self) THEN DirResource_write(self, buf, f)
    ELSE FileResource_write(self, buf, f, now)

Resource_seek(self, offset, whence, f, build) ==
    IF IsDirResource(self) THEN DirResource_seek(self, offset, whence, f, build)
    ELSE FileResource_seek(self, offset, whence, f, build)

Resource_fcntl(self, cmd, arg, f) ==
    IF IsDirResource(self) THEN DirResource_fcntl(self, cmd, arg, f)
    ELSE FileResource_fcntl(self, cmd, arg, f)

Resource_sync(self, f) ==
    IF IsDirResource(self) THEN DirResource_sync(self, f) ELSE FileResource_sync(self, f)

Resource_truncate(self, len, f) ==
    IF IsDirResource(self) THEN DirResource_truncate(self, len, f)
    ELSE FileResource_truncate(self, len, f)

Resource_utimens(self, times, f) ==
    IF IsDirResource(self) THEN DirResource_utimens(self, times, f)
    ELSE FileResource_utimens(self, times, f)

\* A new handle `h` holding `r` enters the table.
Opened(h, r, op) ==
    /\ files' = [i \in DOMAIN files \cup {h} |-> IF i = h THEN r ELSE files[i]]
    /\ opened' = [i \in DOMAIN files \cup {h} |->
                    IF i # h THEN opened[i]
                    ELSE IF IsDirResource(r) THEN 0 ELSE r.flags]
    /\ ret' = [op |-> op, err |-> OK, val |-> h, buf |-> <<>>]
    /\ hist' = NoHist
    /\ UNCHANGED <<fs, reply, proc>>

Hnd_open_file ==
    /\ Alive /\ files = NoFiles
    /\ \E flags \in DupFlags :
          Opened(1, FileResource_new("a", FileBlock, flags, 0, 1), "open")

Hnd_open_dir ==
    /\ Alive /\ files = NoFiles
    /\ \E data \in DirDatas :
          Opened(1, DirResource_new("", fs.header.root, data), "open")

Hnd_dup ==
    /\ Alive
    /\ \E h \in DOMAIN files, new \in DupIds \ DOMAIN files :
          LET c == Resource_dup(files[h], fs)
          IN  c.err = OK /\ Opened(new, c.val, "dup")

Hnd_read ==
    /\ Alive
    /\ \E h \in DOMAIN files, len \in HndReadLens :
          Call(h, "read", len, Resource_read(files[h], len, fs))

Hnd_write ==
    /\ Alive
    /\ \E h \in DOMAIN files, buf \in {<<1, 2>>}, now \in WriteTimes :
          /\ files[h].seek \in HndWriteSeeks
          /\ Call(h, "write", buf, Resource_write(files[h], buf, fs, now))

Hnd_seek ==
    /\ Alive
    /\ \E h \in DOMAIN files, build \in Builds :
          \E s \in IF IsDirResource(files[h]) THEN HndDirSeeks ELSE HndFileSeeks :
              Call(h, "seek", s, Resource_seek(files[h], s[2], s[1], fs, build))

Hnd_fcntl ==
    /\ Alive
    /\ \E h \in DOMAIN files, a \in HndFcntls :
          Call(h, "fcntl", a, Resource_fcntl(files[h], a[1], a[2], fs))

Hnd_sync ==
    /\ Alive
    /\ \E h \in DOMAIN files :
          Call(h, "sync", 0, Resource_sync(files[h], fs))

Hnd_truncate ==
    /\ Alive
    /\ \E h \in DOMAIN files, len \in {0, 1} :
          Call(h, "truncate", len, Resource_truncate(files[h], len, fs))

Hnd_utimens ==
    /\ Alive
    /\ \E h \in DOMAIN files, times \in {<<<<5, 6>>, <<9, 3>>>>} :
          Call(h, "utimens", times, Resource_utimens(files[h], times, fs))

NextHnd ==
    \/ Hnd_open_file
    \/ Hnd_open_dir
    \/ Hnd_dup
    \/ Res_close
    \/ Hnd_read
    \/ Hnd_write
    \/ Hnd_seek
    \/ Hnd_fcntl
    \/ Hnd_sync
    \/ Hnd_truncate
    \/ Hnd_utimens

SpecHnd == InitRes /\ [][NextHnd]_vars

---------------------------------------------------------------------------
(* Claims checked under Spec (the FUSE host) *)

\* Who holds block b: the reserved area, a free extent, a node record, or
\* an extent of a node.
Owners(f, b) ==
    {<<"reserved", 0, 0>> : x \in {b} \cap ReservedBlocks}
    \cup {<<"free", 0, i>> : i \in {j \in 1..Len(FreeExtents(f)) :
                                      b \in ExtentBlocks(FreeExtents(f)[j])}}
    \cup {<<"node", n, 0>> : n \in {b} \cap DOMAIN f.nodes}
    \cup UNION {{<<"extent", n, i>> : i \in {j \in 1..Len(f.nodes[n].extents) :
                                               b \in ExtentBlocks(f.nodes[n].extents[j])}}
                : n \in TreeNodes(f)}

AllExtents(f) == UNION {{f.nodes[n].extents[i] : i \in 1..Len(f.nodes[n].extents)} : n \in DOMAIN f.nodes}

\* C1: in every reachable state each in-range block has exactly one holder
\* among the reserved boot/header blocks, the free-list extents, the node
\* records (the free-list node's own block included) and the extents of the
\* nodes of the tree; and no extent reaches outside the image.
C1_BlocksPartitioned ==
    /\ \A b \in 0..(NumBlocks - 1) : Cardinality(Owners(fs, b)) = 1
    /\ \A e \in AllExtents(fs) : ExtentBlocks(e) \subseteq 0..(NumBlocks - 1)

\* A file holds two extents (its second one taken from a block that a
\* remove had given back) and the last request was a write.
C1_Witness ==
    /\ \E n \in TreeNodes(fs) : ~is_dir(fs.nodes[n]) /\ Len(fs.nodes[n].extents) >= 2
    /\ reply.op = "write" /\ reply.kind = "written"

\* C6: when a create (mkdir) that succeeded is directly followed by the
\* unlink (rmdir) of the same name in the same parent, the remove replies ok
\* and statfs reports the free count it reported before the create.
C6_CreateRemoveRestoresFree ==
    hist.kind = "removed" =>
        /\ reply.kind = "ok"
        /\ RedoxFS_statfs(fs, 1).reply.val.bfree = hist.bfree

\* Such a pair happened, and the create had taken two blocks (the node and
\* a first extent for the parent directory).
C6_Witness ==
    /\ hist.kind = "removed"
    /\ hist.bfree - hist.after = 2
    /\ reply.kind = "ok"

DirEntries(f) ==
    {<<ino, name>> \in Inodes(f) \X Names :
        /\ find_node(f, name, inode_block(f, ino)).err = OK
        /\ is_dir(f.nodes[find_node(f, name, inode_block(f, ino)).val])}

\* C7: rmdir of a directory that has a child replies ENOTEMPTY and changes
\* nothing; rmdir of a directory without children replies ok and the
\* directory is gone; and every node of the tree but the root has a live
\* directory as its parent, which lists it.
C7_RmdirOnlyWhenEmpty ==
    /\ \A e \in DirEntries(fs) :
          LET dir == find_node(fs, e[2], inode_block(fs, e[1])).val
              h == RedoxFS_rmdir(fs, e[1], e[2])
          IN  IF Len(Children(fs, dir)) > 0
              THEN h.reply.kind = "error" /\ h.reply.err = "ENOTEMPTY" /\ h.fs = fs
              ELSE /\ h.reply.kind = "ok"
                   /\ dir \notin DOMAIN h.fs.nodes
                   /\ find_node(h.fs, e[2], inode_block(fs, e[1])).err = "ENOENT"
    /\ \A n \in TreeNodes(fs) \ {fs.header.root} :
          LET p == fs.nodes[n].parent
          IN  /\ p \in TreeNodes(fs)
              /\ is_dir(fs.nodes[p])
              /\ \E i \in 1..Len(Children(fs, p)) : Children(fs, p)[i] = n

\* An rmdir was just refused with ENOTEMPTY.
C7_Witness == reply.op = "rmdir" /\ reply.err = "ENOTEMPTY"

ChildNames(f, dir) ==
    IF is_dir(f.nodes[dir])
    THEN {f.nodes[Children(f, dir)[i]].name : i \in 1..Len(Children(f, dir))}
    ELSE {}

\* C8: a create, mkdir or growing write that replies ENOSPC leaves the
\* free count statfs reports, and the names in every directory, as they were.
C8_EnospcKeepsFreeCount ==
    LET Same(h) ==
            h.reply.err = "ENOSPC" =>
                /\ Bfree(h.fs) = Bfree(fs)
                /\ TreeNodes(h.fs) = TreeNodes(fs)
                /\ \A d \in TreeNodes(fs) : ChildNames(h.fs, d) = ChildNames(fs, d)
                /\ \A d \in TreeNodes(fs) : node_len(h.fs, d) = node_len(fs, d)
    IN  /\ \A ino \in Inodes(fs), name \in Names, t \in FuseTimes :
              /\ Same(RedoxFS_create(fs, ino, name, t))
              /\ Same(RedoxFS_mkdir(fs, ino, name, t))
        /\ \A ino \in FileInodes(fs), offset \in FuseOffsets, data \in FuseData :
              Same(RedoxFS_write(fs, ino, offset, data))
        /\ reply.err = "ENOSPC" => hist = NoHist

\* A create was just refused with ENOSPC although one block was free: the
\* node block had been allocated and was given back.
C8_Witness ==
    /\ reply.op = "create" /\ reply.err = "ENOSPC"
    /\ Bfree(fs) = 1

---------------------------------------------------------------------------
(* Claims checked under SpecRes (the Redox host) *)

AccMode(self) == BitAnd(self.flags, O_ACCMODE)

Readable(self) == AccMode(self) \in {O_RDONLY, O_RDWR}

Writable(self) == AccMode(self) \in {O_WRONLY, O_RDWR}

\* Arguments the claims about one call range over.
AnyBufs == {<<>>, <<5>>, <<1, 2>>, <<3, 0, 4>>}

AnyLens == {0, 1, 2, 3, 512, 513, 1025}

AnyReadLens == 0..4

AnyTimes == {<<1, 0>>, <<2, 7>>}

AnyOffsets == {0, 1, 2, 511, 512, MaxSigned - 1, MaxSigned, MaxSigned + 1,
               Word - 512, Word - 2, Word - 1}

AnyWhence == 0..3

AnyFlagArgs == {0, O_RDWR, O_NONBLOCK + O_APPEND + O_WRONLY, Word - 1}

AnyCmds == {0, F_GETFL, F_SETFL, 5}

\* C2: a write of a buffer of length n at offset 0 that returns n, directly
\* followed by a read of n bytes at offset 0, returns n and exactly the bytes
\* written, whatever the node's length and content were before.  On a
\* FileResource opened O_RDWR: the run write at seek 0, seek(SEEK_SET, 0),
\* read n ends with the read returning the written buffer; and at the engine,
\* from every reachable filesystem, for every buffer.
C2_WriteThenReadRoundTrip ==
    /\ hist.kind = "readback" /\ (\A h \in DOMAIN files : AccMode(files[h]) = O_RDWR)
          => hist.err = OK /\ hist.count = Len(hist.buf) /\ hist.got = hist.buf
    /\ \A buf \in AnyBufs, t \in AnyTimes :
          LET w == write_node(fs, FileBlock, 0, buf, t)
              r == read_node(w.fs, FileBlock, 0, Len(buf))
          IN  w.err = OK /\ w.val = Len(buf) => r.err = OK /\ r.val = buf

\* The read-back happened on a file that was longer than the buffer.
C2_Witness ==
    /\ hist.kind = "readback" /\ hist.got = <<1, 2>>
    /\ \E h \in DOMAIN files : AccMode(files[h]) = O_RDWR
    /\ node_len(fs, FileBlock) = 513

\* C3: FileResource.read reaches the engine only when flags & O_ACCMODE is
\* O_RDONLY or O_RDWR, and then returns what the engine's read returns; for
\* any other access mode it returns EBADF for every buffer length, puts
\* nothing in the buffer, and leaves the handle (its seek included) and the
\* filesystem unchanged.
C3_ReadGating ==
    \A h \in DOMAIN files, len \in AnyReadLens :
        LET self == files[h]
            c == FileResource_read(self, len, fs)
            r == read_node(fs, self.block, self.seek, len)
        IN  IF Readable(self)
            THEN c.err = r.err /\ (r.err = OK => c.val = Len(r.val) /\ c.buf = r.val)
            ELSE c.err = "EBADF" /\ c.buf = <<>> /\ c.self = self /\ c.fs = fs

\* A write-only handle was refused a read of a file that has content.
C3_Witness ==
    /\ ret.op = "read" /\ ret.err = "EBADF"
    /\ \E h \in DOMAIN files : AccMode(files[h]) = O_WRONLY
    /\ node_len(fs, FileBlock) > 0

\* C4: FileResource.write reaches the engine only when flags & O_ACCMODE is
\* O_WRONLY or O_RDWR, and then does what the engine's write does; for any
\* other access mode it returns EBADF for every buffer, and the filesystem
\* (the file's content, length and mtime) and the handle (its seek) are
\* unchanged.
C4_WriteGating ==
    \A h \in DOMAIN files, buf \in AnyBufs, now \in AnyTimes :
        LET self == files[h]
            c == FileResource_write(self, buf, fs, now)
            w == write_node(fs, self.block, self.seek, buf, now)
        IN  IF Writable(self)
            THEN c.err = w.err /\ c.fs = w.fs /\ (w.err = OK => c.val = w.val)
            ELSE /\ c.err = "EBADF" /\ c.self = self /\ c.fs = fs
                 /\ node_len(c.fs, self.block) = node_len(fs, self.block)
                 /\ c.fs.nodes[self.block].mtime = fs.nodes[self.block].mtime
                 /\ c.fs.disk = fs.disk

\* A read-only handle was refused a write to a file that has content, and
\* the file still has its creation mtime.
C4_Witness ==
    /\ ret.op = "write" /\ ret.err = "EBADF"
    /\ \E h \in DOMAIN files : AccMode(files[h]) = O_RDONLY /\ files[h].seek = 511
    /\ node_len(fs, FileBlock) = 1
    /\ fs.nodes[FileBlock].mtime = 1

\* What fcntl(cmd, arg) does to a handle, for every cmd and arg.
C5_OneFcntl ==
    \A h \in DOMAIN files, cmd \in AnyCmds, arg \in AnyFlagArgs :
        LET self == files[h]
            c == FileResource_fcntl(self, cmd, arg, fs)
        IN  /\ c.fs = fs
            /\ AccMode(c.self) = AccMode(self)
            /\ c.self.seek = self.seek /\ c.self.block = self.block
            /\ cmd = F_GETFL => c.err = OK /\ c.val = self.flags /\ c.self = self
            /\ cmd = F_SETFL =>
                  /\ c.err = OK /\ c.val = 0
                  /\ BitAnd(c.self.flags, BitNot(O_ACCMODE)) = BitAnd(arg, BitNot(O_ACCMODE))
            /\ cmd \notin {F_GETFL, F_SETFL} => c.err = "EINVAL" /\ c.self = self

\* No other call changes the flags.
C5_OtherCallsKeepFlags ==
    \A h \in DOMAIN files :
        LET self == files[h]
        IN  /\ \A len \in ReadLens :
                  FileResource_read(self, len, fs).self.flags = self.flags
            /\ \A len \in TruncateLens :
                  FileResource_truncate(self, len, fs).self.flags = self.flags
            /\ \A buf \in WriteBufs, now \in WriteTimes :
                  FileResource_write(self, buf, fs, now).self.flags = self.flags
            /\ \A s \in SeekSteps, b \in Builds :
                  FileResource_seek(self, s[2], s[1], fs, b).self.flags = self.flags

\* C5: the access mode of a FileResource is immutable: in every reachable
\* state flags & O_ACCMODE of a handle equals its value at creation;
\* fcntl(F_SETFL, arg) replaces exactly the non-O_ACCMODE bits with those
\* of arg, fcntl(F_GETFL) returns the flags without changing them, any
\* other command returns EINVAL and changes nothing, and no other call
\* changes the flags.
C5_AccessModeImmutable ==
    /\ DOMAIN opened = DOMAIN files
    /\ \A h \in DOMAIN files : AccMode(files[h]) = BitAnd(opened[h], O_ACCMODE)
    /\ C5_OneFcntl
    /\ C5_OtherCallsKeepFlags

\* F_SETFL with O_APPEND | O_RDWR on a handle opened O_RDONLY set O_APPEND
\* and left the handle read-only.
C5_Witness ==
    /\ ret.op = "fcntl" /\ ret.err = OK
    /\ \E h \in DOMAIN files : files[h].flags = O_RDONLY + O_APPEND /\ opened[h] = O_RDONLY

\* C9: FileResource.truncate(len) is permitted exactly when the access mode
\* is O_WRONLY or O_RDWR.  When permitted and the engine succeeds, it
\* returns 0, the node's length is exactly len, and the handle (its seek
\* included, even beyond len) is unchanged; when the engine fails its error
\* is returned.  Otherwise (O_RDONLY, or no access mode) it returns EBADF
\* and the filesystem, so the node's length, is unchanged.
C9_TruncateGatingAndLength ==
    \A h \in DOMAIN files, len \in AnyLens :
        LET self == files[h]
            c == FileResource_truncate(self, len, fs)
            e == node_set_len(fs, self.block, len)
        IN  /\ c.self = self
            /\ IF Writable(self)
               THEN /\ c.err = e.err /\ c.err # "EBADF"
                    /\ c.err = OK => c.val = 0 /\ node_len(c.fs, self.block) = len
               ELSE /\ c.err = "EBADF" /\ c.fs = fs
                    /\ node_len(c.fs, self.block) = node_len(fs, self.block)

\* A truncate shrank the file to 1 byte under a handle whose seek is 513.
C9_Witness ==
    /\ ret.op = "truncate" /\ ret.err = OK
    /\ \E h \in DOMAIN files : files[h].seek = 513 /\ Writable(files[h])
    /\ node_len(fs, FileBlock) = 1

\* C10: FileResource.seek(offset, whence) sets and returns the position
\* max(0, base + offset), offset read as a signed word and base = 0 for
\* SEEK_SET, the current seek for SEEK_CUR and the node's length for
\* SEEK_END; the result is not clamped to the file size and never negative;
\* any other whence returns EINVAL and leaves seek unchanged.
C10_SeekIsClampedSum ==
    \A h \in DOMAIN files, offset \in AnyOffsets, whence \in AnyWhence, build \in Builds :
        LET self == files[h]
            c == FileResource_seek(self, offset, whence, fs, build)
            base == IF whence = SEEK_SET THEN 0
                    ELSE IF whence = SEEK_CUR THEN self.seek
                    ELSE node_len(fs, self.block)
        IN  /\ c.fs = fs
            /\ IF whence \in {SEEK_SET, SEEK_CUR, SEEK_END}
               THEN /\ c.err = OK
                    /\ c.val = MaxOf(0, base + AsSigned(offset))
                    /\ c.self = [self EXCEPT !.seek = c.val]
                    /\ c.val >= 0
               ELSE c.err = "EINVAL" /\ c.self = self

---------------------------------------------------------------------------
(* Claims checked under SpecOwn *)

\* C11: FileResource.utimens succeeds if and only if the node's owner uid
\* equals the handle's uid or the handle's uid is 0, whatever the handle's
\* access mode.  Refused: it returns EBADF and the filesystem is unchanged.
\* Permitted with a second entry in times: the node's mtime and mtime_nsec
\* become times[1] (cast to unsigned) and nothing else changes.  Permitted
\* with fewer than two entries: it returns 0 and writes nothing.  The
\* handle is never changed.
C11_UtimensOwnerOnly ==
    \A h \in DOMAIN files, times \in TimeLists :
        LET self == files[h]
            c == FileResource_utimens(self, times, fs)
            owner == fs.nodes[self.block].uid
        IN  /\ c.self = self
            /\ (c.err = OK) <=> (owner = self.uid \/ self.uid = 0)
            /\ c.err # OK => c.err = "EBADF" /\ c.fs = fs
            /\ c.err = OK /\ Len(times) >= 2 =>
                  /\ c.val = 0
                  /\ c.fs.nodes[self.block].mtime = AsUnsigned(times[2][1])
                  /\ c.fs.nodes[self.block].mtime_nsec = AsUnsigned(times[2][2])
                  /\ c.fs = [fs EXCEPT !.nodes[self.block].mtime = c.fs.nodes[self.block].mtime,
                                       !.nodes[self.block].mtime_nsec = c.fs.nodes[self.block].mtime_nsec]
            /\ c.err = OK /\ Len(times) < 2 => c.val = 0 /\ c.fs = fs

\* Root set the mtime of a file it does not own through a read-only handle.
C11_Witness ==
    /\ ret.op = "utimens" /\ ret.err = OK
    /\ \E h \in DOMAIN files : files[h].uid = 0 /\ AccMode(files[h]) = O_RDONLY
    /\ fs.nodes[FileBlock].uid = 1
    /\ fs.nodes[FileBlock].mtime = 9 /\ fs.nodes[FileBlock].mtime_nsec = 3

---------------------------------------------------------------------------
(* Claims checked under SpecHnd *)

\* C12: dup returns a new handle whose fields (path, block, flags, seek and
\* uid; for a directory path, block, data and seek) equal the original's at
\* the moment of dup, and leaves the existing handles as they are.
\* Afterwards the handles are independent: a call on one handle changes no
\* other handle (at most one handle changes in a step), and every handle
\* keeps its path and block, so both keep referring to the same node.
C12_DupIndependent ==
    [][/\ \A h \in DOMAIN files \cap DOMAIN files' :
             files'[h].block = files[h].block /\ files'[h].path = files[h].path
       /\ Cardinality({h \in DOMAIN files \cap DOMAIN files' : files'[h] # files[h]}) <= 1
       /\ ret'.op = "dup" =>
             /\ \A k \in DOMAIN files : k \in DOMAIN files' /\ files'[k] = files[k]
             /\ \E new \in DOMAIN files' \ DOMAIN files, o \in DOMAIN files :
                   files'[new] = files[o]]_vars

\* Two handles on the file that were equal at dup now differ in seek and in
\* flags, and still have the same block.
C12_Witness ==
    /\ DOMAIN files = {1, 2}
    /\ ~IsDirResource(files[1]) /\ ~IsDirResource(files[2])
    /\ files[1].block = files[2].block
    /\ files[1].seek = 2 /\ files[2].seek = 1
    /\ files[1].flags # files[2].flags

DirHandles == {h \in DOMAIN files : IsDirResource(files[h])}

\* C13: for a DirResource with data, 0 <= seek <= data.len() in every state
\* reachable by seek (any whence, any offset), read and dup, and every seek
\* that returns leaves seek in that range and returns it; seek on a
\* DirResource without data returns EBADF and leaves the handle as it was.
C13_DirSeekInRange ==
    \A h \in DirHandles :
        LET self == files[h]
        IN  /\ self.data # None => self.seek >= 0 /\ self.seek <= Len(self.data[1])
            /\ \A o \in AnyOffsets, w \in AnyWhence, b \in Builds :
                  LET c == DirResource_seek(self, o, w, fs, b)
                  IN  /\ c.fs = fs
                      /\ self.data = None => c.err = "EBADF" /\ c.self = self
                      /\ self.data # None /\ c.err = OK =>
                            /\ c.self.seek >= 0 /\ c.self.seek <= Len(self.data[1])
                            /\ c.val = c.self.seek
                      /\ c.err # OK => c.self = self

\* A seek on the listing "a\nb" ended at its length, 3.
C13_Witness ==
    /\ ret.op = "seek" /\ ret.err = OK /\ ret.val = 3
    /\ \E h \in DirHandles : files[h].data = Some(<<97, 10, 98>>) /\ files[h].seek = 3

\* C14: DirResource.read returns EISDIR when data is absent; otherwise it
\* returns n = min(buf.len(), data.len() - seek), puts data[seek .. seek+n]
\* in the buffer and advances seek by n; so two reads in a row return
\* adjoining pieces of the listing, and a read at seek = data.len()
\* returns 0.
C14_DirReadStreams ==
    \A h \in DirHandles, len \in 0..4 :
        LET self == files[h]
            c == DirResource_read(self, len, fs)
        IN  /\ c.fs = fs
            /\ self.data = None => c.err = "EISDIR" /\ c.self = self
            /\ self.data # None =>
                  LET data == self.data[1]
                      n == MinOf(len, Len(data) - self.seek)
                  IN  /\ c.err = OK /\ c.val = n
                      /\ c.buf = [k \in 1..n |-> data[self.seek + k]]
                      /\ c.self = [self EXCEPT !.seek = self.seek + n]
                      /\ self.seek = Len(data) => c.val = 0
                      /\ \A len2 \in 0..4 :
                            LET d == DirResource_read(c.self, len2, c.fs)
                            IN  c.buf \o d.buf =
                                  [k \in 1..MinOf(len + len2, Len(data) - self.seek) |->
                                     data[self.seek + k]]

\* A read of 2 bytes at seek 2 of "a\nb" returned the last byte only.
C14_Witness ==
    /\ ret.op = "read" /\ ret.err = OK /\ ret.val = 1 /\ ret.buf = <<98>>
    /\ \E h \in DirHandles : files[h].seek = 3

\* C15: on a DirResource write, fcntl, sync, truncate and utimens return
\* EBADF for every argument, with data present or absent, and leave the
\* handle (seek and data) and the filesystem unchanged.
C15_DirUnsupportedOps ==
    \A h \in DirHandles :
        LET self == files[h]
            Refused(c) == c.err = "EBADF" /\ c.self = self /\ c.fs = fs
        IN  /\ \A buf \in AnyBufs : Refused(DirResource_write(self, buf, fs))
            /\ \A cmd \in AnyCmds, arg \in AnyFlagArgs :
                  Refused(DirResource_fcntl(self, cmd, arg, fs))
            /\ Refused(DirResource_sync(self, fs))
            /\ \A len \in AnyLens : Refused(DirResource_truncate(self, len, fs))
            /\ \A times \in TimeLists : Refused(DirResource_utimens(self, times, fs))

\* A directory handle with a listing was refused a write.
C15_Witness ==
    /\ ret.op = "write" /\ ret.err = "EBADF"
    /\ \E h \in DirHandles : files[h].data = Some(<<97, 10, 98>>)

---------------------------------------------------------------------------
(* Further claims checked under SpecRes *)

\* C19: on a FileResource a successful read or write advances seek by
\* exactly the count it returns, which is at most the buffer's length, and
\* changes nothing else of the handle; a read or write that fails (EBADF
\* or an engine error) leaves the handle unchanged; two reads in a row
\* return adjoining ranges of the file; a read at or past the end of the
\* file returns 0 and does not move seek.
C19_SeekAdvancesByCount ==
    \A h \in DOMAIN files :
        LET self == files[h]
        IN  /\ \A len \in AnyReadLens :
                  LET c == FileResource_read(self, len, fs)
                  IN  /\ c.err # OK => c.self = self
                      /\ c.err = OK =>
                            /\ c.val <= len /\ c.val = Len(c.buf)
                            /\ c.self = [self EXCEPT !.seek = self.seek + c.val]
                            /\ self.seek >= node_len(fs, self.block) =>
                                  c.val = 0 /\ c.self = self
                            /\ \A len2 \in {0, 2} :
                                  LET d == FileResource_read(c.self, len2, c.fs)
                                  IN  /\ d.err = OK
                                      /\ c.buf \o d.buf =
                                            read_bytes(fs.disk, fs.nodes[self.block].extents,
                                                       self.seek, c.val + d.val)
            /\ \A buf \in AnyBufs, now \in AnyTimes :
                  LET w == FileResource_write(self, buf, fs, now)
                  IN  /\ w.err # OK => w.self = self
                      /\ w.err = OK =>
                            /\ w.val <= Len(buf)
                            /\ w.self = [self EXCEPT !.seek = self.seek + w.val]

\* The second of two reads of 2 bytes from the start of a longer file.
C19_Witness ==
    /\ ret.op = "read" /\ ret.err = OK /\ ret.val = 2
    /\ \E h \in DOMAIN files : files[h].seek = 4
    /\ node_len(fs, FileBlock) >= 4

----------------------------------------------------------------------------
(* Claims under SpecMain: the FUSE surface of images with either layout *)

DirBlocks(f) == {b \in TreeNodes(f) : is_dir(f.nodes[b])}

\* C16: every inode number the FUSE surface exposes for the node at block b
\* is b - root + 1: the root directory is inode 1, inode_block inverts
\* block_inode, and the inodes readdir emits for '.' and for each child are
\* the numbers lookup and getattr report for those nodes, so that getattr of
\* a readdir inode reaches the node readdir listed.
C16_InodeIsBlockOffset ==
    proc.pc = "serving" =>
        /\ block_inode(fs, fs.header.root) = 1
        /\ \A b \in TreeNodes(fs) : inode_block(fs, block_inode(fs, b)) = b
        /\ \A b \in TreeNodes(fs) :
              RedoxFS_getattr(fs, block_inode(fs, b)).reply.val.ino = b - fs.header.root + 1
        /\ \A b \in DirBlocks(fs) :
              LET ino == block_inode(fs, b)
                  entries == RedoxFS_readdir(fs, ino, 0).reply.val
                  children == child_nodes(fs, b).val
              IN  /\ entries[1].ino = ino
                  /\ \A k \in 1..Len(children) :
                        LET e == entries[k + 2]
                            looked == RedoxFS_lookup(fs, ino, e.name).reply
                        IN  /\ e.ino = children[k][1] - fs.header.root + 1
                            /\ looked.kind = "entry" /\ looked.val.ino = e.ino
                            /\ inode_block(fs, e.ino) = children[k][1]

\* C18: started without an image path, or with an image path and no mount
\* point, the program prints a message, mounts nothing and terminates with a
\* non-zero exit status.
C18_MissingArgsExitNonZero ==
    (proc.pc # "start" /\ Len(proc.args) < 2) =>
        /\ proc.pc = "exited"
        /\ ~proc.mounted
        /\ proc.out # <<>>
        /\ proc.out[Len(proc.out)] \in {"redoxfs: no disk image provided",
                                        "redoxfs: no mount point provided"}
        /\ proc.status # 0

AnyReaddirOffsets == {0, 1, 2, 3, 5}

\* C17: readdir at offset 0 emits '.', then '..', then one entry per child
\* in child_nodes order, with entry offsets 0, 1, 2, ...; at a nonzero
\* offset it emits nothing and replies ok; when child_nodes fails it replies
\* with that errno and emits nothing.  It never changes the filesystem.
C17_ReaddirListing ==
    proc.pc = "serving" =>
        \A b \in TreeNodes(fs), offset \in AnyReaddirOffsets :
            LET h == RedoxFS_readdir(fs, block_inode(fs, b), offset)
                r == h.reply
                cn == child_nodes(fs, b)
            IN  /\ h.fs = fs
                /\ IF cn.err # OK
                   THEN r.kind = "error" /\ r.err = cn.err /\ r.val = 0
                   ELSE /\ r.kind = "directory" /\ r.err = OK
                        /\ IF offset # 0 THEN r.val = <<>>
                           ELSE /\ Len(r.val) = Len(cn.val) + 2
                                /\ r.val[1].name = "." /\ r.val[1].kind = "Directory"
                                /\ r.val[2].name = ".." /\ r.val[2].kind = "Directory"
                                /\ \A i \in 1..Len(r.val) : r.val[i].offset = i - 1
                                /\ \A k \in 1..Len(cn.val) :
                                      /\ r.val[k + 2].name = cn.val[k][2].name
                                      /\ r.val[k + 2].kind =
                                            IF is_dir(cn.val[k][2]) THEN "Directory"
                                            ELSE "RegularFile"

\* A readdir of a directory whose children were inserted as "b", then "a".
C17_Witness ==
    /\ reply.op = "readdir" /\ reply.kind = "directory"
    /\ Len(reply.val) = 4
    /\ reply.val[3].name = "b" /\ reply.val[4].name = "a"
    /\ reply.val[4].offset = 3

AnySetAttrs ==
    {SetAttr(mode, uid, gid, size, mtime) :
        mode \in {<<>>, <<420>>}, uid \in {<<>>, <<1>>}, gid \in {<<>>, <<1>>},
        size \in {<<>>, <<0>>, <<1>>, <<512>>, <<1024>>},
        mtime \in {<<>>, <<<<2, 7>>>>}}

\* C20: setattr, flush and fsync never change the filesystem: for every
\* combination of setattr arguments the state (nodes, contents, free list)
\* stays as it was and the reply is the attr reply getattr gives for the
\* inode; flush and fsync reply ok.
C20_SetattrFlushFsyncFrame ==
    proc.pc = "serving" =>
        \A b \in TreeNodes(fs) :
            LET ino == block_inode(fs, b)
                g == RedoxFS_getattr(fs, ino)
            IN  /\ \A attrs \in AnySetAttrs :
                      LET h == RedoxFS_setattr(fs, ino, attrs)
                      IN  /\ h.fs = fs
                          /\ h.reply.kind = g.reply.kind
                          /\ h.reply.err = g.reply.err
                          /\ h.reply.val = g.reply.val
                /\ g.fs = fs /\ g.reply.kind = "attr"
                /\ RedoxFS_flush(fs, ino) = Handled(fs, Reply("flush", "ok", OK, 0))
                /\ \A datasync \in BOOLEAN :
                      RedoxFS_fsync(fs, ino, datasync) = Handled(fs, Reply("fsync", "ok", OK, 0))

\* A setattr of a regular file answered while the disk still has free blocks.
C20_Witness ==
    /\ reply.op = "setattr" /\ reply.kind = "attr"
    /\ reply.val.kind = "RegularFile"
    /\ Bfree(fs) > 0

----------------------------------------------------------------------------
(* One image served by either host: by the Redox host while a handle is    *)
(* open, by the FUSE host otherwise                                        *)

Size_write == files = NoFiles /\ Fuse_write

Size_getattr == files = NoFiles /\ Fuse_getattr

Size_lookup == files = NoFiles /\ Fuse_lookup

NextSize ==
    \/ Size_write
    \/ Size_getattr
    \/ Size_lookup
    \/ Res_open
    \/ Res_close
    \/ Res_truncate
    \/ Res_stat

SpecSize == InitRes /\ [][NextSize]_vars

\* C21: the two hosts agree on a node's size: the size FUSE getattr and
\* lookup report for a node is node_len, the st_size the resource stat
\* reports for it, also when the node has more than one extent; the FUSE
\* blocks field is ceil(size / 512).
C21_HostsAgreeOnSize ==
    \A b \in TreeNodes(fs) :
        LET ino == block_inode(fs, b)
            attr == RedoxFS_getattr(fs, ino).reply.val
            node == fs.nodes[b]
            st == FileResource_stat(FileResource_new(node.name, b, O_RDONLY, 0, 0), fs)
        IN  /\ st.err = OK
            /\ st.buf.st_size = node_len(fs, b)
            /\ attr.size = st.buf.st_size
            /\ attr.blocks = (attr.size + 511) \div 512
            /\ b # fs.header.root =>
                  RedoxFS_lookup(fs, block_inode(fs, node.parent), node.name).reply.val.size
                      = st.buf.st_size

=============================================================================
